---- MODULE Spec2Model ----
(***************************************************************************)
(* Model of remarkable_gardens.py: a Streamlit script that is re-run from  *)
(* its first line on every dropdown change.  One run loads the two files,  *)
(* builds the two option lists, filters the gardens, draws map 1,          *)
(* aggregates per department, draws map 2 and shows the table.             *)
(*                                                                         *)
(* Strings that the script inspects character by character (the "types"    *)
(* column and the type selector) are sequences of one-character strings.   *)
(* Department names are only compared for equality and sorted, and are     *)
(* atomic strings.  A DataFrame is a sequence of records (its rows).       *)
(***************************************************************************)
EXTENDS Integers, Sequences, FiniteSets, TLC

VARIABLES
    csv,                 \* rows of liste-des-jardins-remarquables.csv
    geojson,             \* feature names ("nom") of departements.geojson
    sel_type,            \* value held by the first sidebar widget
    sel_dept,            \* value held by the second sidebar widget
    pc,                  \* position of the running script
    gardens,             \* the script's global `gardens`
    dpts_data,           \* the script's global `dpts_data`
    unique_types,        \* options of the first select box
    unique_departements, \* options of the second select box
    add_selectbox,       \* value returned by the first select box
    add_selectbox_2,     \* value returned by the second select box
    map_1,               \* <<>> before the first map is built, then <<map>>
    gardens_per_dpt,     \* the aggregated frame given to the choropleth
    map_2,               \* <<>> before the second map is built, then <<map>>
    table,               \* rows shown by st.table
    narrowed             \* history: the previous run had filtered rows out

vars == <<csv, geojson, sel_type, sel_dept, pc, gardens, dpts_data,
          unique_types, unique_departements, add_selectbox, add_selectbox_2,
          map_1, gardens_per_dpt, map_2, table, narrowed>>

----------------------------------------------------------------------------
(* Bounds of the model *)

MaxGardens == 2
MaxBoundaries == 2

----------------------------------------------------------------------------
(* Generic helpers *)

Range(s) == {s[i] : i \in DOMAIN s}

SeqsBetween(S, lo, hi) == UNION {[1..k -> S] : k \in lo..hi}

RECURSIVE Sum(_)
Sum(s) == IF s = <<>> THEN 0 ELSE Head(s) + Sum(Tail(s))

RECURSIVE Flatten(_)
Flatten(ss) == IF ss = <<>> THEN <<>> ELSE Head(ss) \o Flatten(Tail(ss))

Column(g, c) == [i \in 1..Len(g) |-> g[i][c]]

----------------------------------------------------------------------------
(* The sentinel option and the input universe *)

All == <<"A", "l", "l">>
AllDept == "All"

\* "types" cells of the input universe: "a", "a.|All", "a$"
TypeFields == << <<"a">>,
                 <<"a", ".", "|", "A", "l", "l">>,
                 <<"a", "$">> >>

GardenDepartments == <<"Paris", "Rhone">>

\* every department name of the universe, in Python's string order
SortedNames == <<"Ain", "Paris", "Rhone">>

Latitude(d) == IF d = "Paris" THEN 48 ELSE 45
Longitude(d) == IF d = "Paris" THEN 2 ELSE 4

\* the rows a gardens file may hold: every type cell in every department
CsvRows ==
    {[nom_du_jardin |-> <<f, d>>,
      types |-> TypeFields[f],
      departement |-> GardenDepartments[d],
      latitude |-> Latitude(GardenDepartments[d]),
      longitude |-> Longitude(GardenDepartments[d])] :
        f \in DOMAIN TypeFields, d \in DOMAIN GardenDepartments}

CsvFiles == SeqsBetween(CsvRows, 0, MaxGardens)

\* a boundary file holds at least one feature; names may repeat
GeojsonFiles == SeqsBetween(Range(SortedNames), 1, MaxBoundaries)

----------------------------------------------------------------------------
(* Loading: lines 41-49 *)

\* pd.read_csv: one row per line, labelled by a RangeIndex
read_csv(file) ==
    [i \in 1..Len(file) |->
        [index |-> i - 1,
         nom_du_jardin |-> file[i].nom_du_jardin,
         types |-> file[i].types,
         departement |-> file[i].departement,
         latitude |-> file[i].latitude,
         longitude |-> file[i].longitude]]

\* gardens.rename(columns = {...}, inplace = True)
rename(g) ==
    [i \in 1..Len(g) |->
        [index |-> g[i].index,
         Garden_s_name |-> g[i].nom_du_jardin,
         types |-> g[i].types,
         Department |-> g[i].departement,
         latitude |-> g[i].latitude,
         longitude |-> g[i].longitude]]

\* gpd.read_file(...)[["nom", "geometry"]]: each feature has its own geometry
read_file(file) ==
    [i \in 1..Len(file) |-> [nom |-> file[i], geometry |-> i]]

----------------------------------------------------------------------------
(* Option lists: lines 51-66 *)

\* str.split("|")
RECURSIVE split(_)
split(s) ==
    IF \A i \in DOMAIN s : s[i] # "|" THEN <<s>>
    ELSE LET i == CHOOSE k \in DOMAIN s :
                      s[k] = "|" /\ \A j \in 1..(k - 1) : s[j] # "|"
         IN <<SubSeq(s, 1, i - 1)>> \o split(SubSeq(s, i + 1, Len(s)))

\* Series.unique(): distinct values in order of first appearance
RECURSIVE unique(_)
unique(s) ==
    IF s = <<>> THEN <<>>
    ELSE LET r == unique(SubSeq(s, 1, Len(s) - 1))
         IN IF s[Len(s)] \in Range(r) THEN r ELSE Append(r, s[Len(s)])

\* list(set(xs)): the distinct values in some fixed, unspecified order
RECURSIVE list_set(_)
list_set(S) ==
    IF S = {} THEN <<>>
    ELSE LET x == CHOOSE y \in S : TRUE IN <<x>> \o list_set(S \ {x})

\* list.insert(0, x)
insert0(l, x) == <<x>> \o l

build_unique_types(g) ==
    LET cells == unique(Column(g, "types"))
        lists == [i \in 1..Len(cells) |-> split(cells[i])]
    IN insert0(list_set(Range(Flatten(lists))), All)

build_unique_departements(g) ==
    insert0(unique(Column(g, "Department")), AllDept)

\* a select box that ignores the widget and always returns its first option
selectbox_default(options, value) == options[1]

\* st.selectbox: the widget's value, or the first option when the widget
\* holds no value among the options
selectbox(options, value) ==
    IF value \in Range(options) THEN value ELSE options[1]

----------------------------------------------------------------------------
(* Filtering: lines 68-72 *)

\* re: the pattern from index k matches the text after p characters.
\* Patterns here are made of ".", "$" and characters that stand for
\* themselves (an option never holds "|": it was split on it).
RECURSIVE re_match(_, _, _, _)
re_match(pat, txt, k, p) ==
    IF k > Len(pat) THEN TRUE
    ELSE IF pat[k] = "$" THEN p = Len(txt) /\ re_match(pat, txt, k + 1, p)
    ELSE IF pat[k] = "." THEN p < Len(txt) /\ re_match(pat, txt, k + 1, p + 1)
    ELSE /\ p < Len(txt)
         /\ txt[p + 1] = pat[k]
         /\ re_match(pat, txt, k + 1, p + 1)

\* Series.str.contains(pat): regex = True by default, i.e. re.search
str_contains(txt, pat) == \E p \in 0..Len(txt) : re_match(pat, txt, 1, p)

\* the department filter applied to the unfiltered frame
filter_step_overwrite(g, t, d) ==
    LET g1 == IF t # All
              THEN SelectSeq(g, LAMBDA r : str_contains(r.types, t))
              ELSE g
    IN IF d # AllDept
       THEN SelectSeq(g, LAMBDA r : r.Department = d)
       ELSE g1

\* the type filter applied without the test for "All"
filter_step_no_sentinel(g, t, d) ==
    LET g1 == SelectSeq(g, LAMBDA r : str_contains(r.types, t))
    IN IF d # AllDept
       THEN SelectSeq(g1, LAMBDA r : r.Department = d)
       ELSE g1

filter_step(g, t, d) ==
    LET g1 == IF t # All
              THEN SelectSeq(g, LAMBDA r : str_contains(r.types, t))
              ELSE g
    IN IF d # AllDept
       THEN SelectSeq(g1, LAMBDA r : r.Department = d)
       ELSE g1

----------------------------------------------------------------------------
(* Maps and aggregation: lines 81-134 *)

\* the value of Series.mean() on an empty column
NaN == -1

\* Series.mean(); floats are modelled by the integer quotient
mean(col) == IF col = <<>> THEN NaN ELSE Sum(col) \div Len(col)

center(g) == <<mean(Column(g, "latitude")), mean(Column(g, "longitude"))>>

\* fl.Map(location = ...) validates the location and raises ValueError
\* ("Location values cannot contain NaNs.")
raises_ValueError(location) == NaN \in Range(location)

sorted(S) == SelectSeq(SortedNames, LAMBDA n : n \in S)

\* a group-by that reports one garden per department
groupby_one(g) ==
    LET keys == sorted(Range(Column(g, "Department")))
    IN [k \in 1..Len(keys) |->
          [Department |-> keys[k], Number_of_gardens |-> 1]]

\* no grouping: one row per garden
groupby_rows(g) ==
    [i \in 1..Len(g) |->
        [Department |-> g[i].Department, Number_of_gardens |-> 1]]

\* gardens.groupby(['Department'], as_index = False).size(), renamed
groupby_size(g) ==
    LET keys == sorted(Range(Column(g, "Department")))
    IN [k \in 1..Len(keys) |->
          [Department |-> keys[k],
           Number_of_gardens |->
               Cardinality({i \in 1..Len(g) : g[i].Department = keys[k]})]]

\* the join with how = "right": every counted department is kept, with a
\* missing geometry when no boundary bears its name
merge_right(left, right) ==
    Flatten([j \in 1..Len(right) |->
        LET m == SelectSeq(left, LAMBDA b : b.nom = right[j].Department)
        IN IF m = <<>>
           THEN <<[nom |-> right[j].Department,
                   geometry |-> NaN,
                   Department |-> right[j].Department,
                   Number_of_gardens |-> right[j].Number_of_gardens]>>
           ELSE [i \in 1..Len(m) |->
                   [nom |-> m[i].nom,
                    geometry |-> m[i].geometry,
                    Department |-> right[j].Department,
                    Number_of_gardens |-> right[j].Number_of_gardens]]])

\* dpts_data.merge(right, left_on = "nom", right_on = "Department"):
\* inner join, in the order of the left rows
merge(left, right) ==
    Flatten([i \in 1..Len(left) |->
        LET m == SelectSeq(right, LAMBDA r : r.Department = left[i].nom)
        IN [j \in 1..Len(m) |->
              [nom |-> left[i].nom,
               geometry |-> left[i].geometry,
               Department |-> m[j].Department,
               Number_of_gardens |-> m[j].Number_of_gardens]]])

\* gardens_per_dpt[["Department", "Number of gardens", "geometry"]]
select_columns(f) ==
    [i \in 1..Len(f) |->
        [Department |-> f[i].Department,
         Number_of_gardens |-> f[i].Number_of_gardens,
         geometry |-> f[i].geometry]]

aggregate(g, dpts) == select_columns(merge(dpts, groupby_size(g)))

\* one marker per filtered garden
markers(g) == [i \in 1..Len(g) |-> <<g[i].latitude, g[i].longitude>>]

\* gardens[["Garden's name", ...]] indexed by the first column
table_of(g) == Column(g, "Garden_s_name")

----------------------------------------------------------------------------
(* The state machine *)

Init ==
    /\ csv \in CsvFiles
    /\ geojson \in GeojsonFiles
    /\ sel_type = All
    /\ sel_dept = AllDept
    /\ pc = "load"
    /\ gardens = <<>>
    /\ dpts_data = <<>>
    /\ unique_types = <<>>
    /\ unique_departements = <<>>
    /\ add_selectbox = All
    /\ add_selectbox_2 = AllDept
    /\ map_1 = <<>>
    /\ gardens_per_dpt = <<>>
    /\ map_2 = <<>>
    /\ table = <<>>
    /\ narrowed = FALSE

Load ==
    /\ pc = "load"
    /\ gardens' = rename(read_csv(csv))
    /\ dpts_data' = read_file(geojson)
    /\ pc' = "selectboxes"
    /\ UNCHANGED <<csv, geojson, sel_type, sel_dept, unique_types,
                   unique_departements, add_selectbox, add_selectbox_2,
                   map_1, gardens_per_dpt, map_2, table, narrowed>>

SelectBoxes ==
    /\ pc = "selectboxes"
    /\ unique_types' = build_unique_types(gardens)
    /\ add_selectbox' = selectbox(unique_types', sel_type)
    /\ unique_departements' = build_unique_departements(gardens)
    /\ add_selectbox_2' = selectbox(unique_departements', sel_dept)
    /\ pc' = "filter"
    /\ UNCHANGED <<csv, geojson, sel_type, sel_dept, gardens, dpts_data,
                   map_1, gardens_per_dpt, map_2, table, narrowed>>

Filter ==
    /\ pc = "filter"
    /\ gardens' = filter_step(gardens, add_selectbox, add_selectbox_2)
    /\ pc' = "map_1"
    /\ UNCHANGED <<csv, geojson, sel_type, sel_dept, dpts_data, unique_types,
                   unique_departements, add_selectbox, add_selectbox_2,
                   map_1, gardens_per_dpt, map_2, table, narrowed>>

Map1 ==
    /\ pc = "map_1"
    /\ IF raises_ValueError(center(gardens))
       THEN pc' = "crashed" /\ UNCHANGED map_1
       ELSE /\ map_1' = <<[location |-> center(gardens),
                           markers |-> markers(gardens)]>>
            /\ pc' = "aggregate"
    /\ UNCHANGED <<csv, geojson, sel_type, sel_dept, gardens, dpts_data,
                   unique_types, unique_departements, add_selectbox,
                   add_selectbox_2, gardens_per_dpt, map_2, table, narrowed>>

Aggregate ==
    /\ pc = "aggregate"
    /\ gardens_per_dpt' = aggregate(gardens, dpts_data)
    /\ pc' = "map_2"
    /\ UNCHANGED <<csv, geojson, sel_type, sel_dept, gardens, dpts_data,
                   unique_types, unique_departements, add_selectbox,
                   add_selectbox_2, map_1, map_2, table, narrowed>>

Map2 ==
    /\ pc = "map_2"
    /\ IF raises_ValueError(center(gardens))
       THEN pc' = "crashed" /\ UNCHANGED map_2
       ELSE /\ map_2' = <<[location |-> center(gardens),
                           choropleth |-> gardens_per_dpt]>>
            /\ pc' = "table"
    /\ UNCHANGED <<csv, geojson, sel_type, sel_dept, gardens, dpts_data,
                   unique_types, unique_departements, add_selectbox,
                   add_selectbox_2, map_1, gardens_per_dpt, table, narrowed>>

Table ==
    /\ pc = "table"
    /\ table' = table_of(gardens)
    /\ pc' = "done"
    /\ UNCHANGED <<csv, geojson, sel_type, sel_dept, gardens, dpts_data,
                   unique_types, unique_departements, add_selectbox,
                   add_selectbox_2, map_1, gardens_per_dpt, map_2, narrowed>>

\* The user picks other options in the sidebar: the script's run is over
\* (finished, or stopped by an exception), its globals are discarded and
\* it starts again from the first line.
UserChange ==
    /\ pc \in {"done", "crashed"}
    /\ \E t \in Range(unique_types), d \in Range(unique_departements) :
          /\ <<t, d>> # <<sel_type, sel_dept>>
          /\ sel_type' = t
          /\ sel_dept' = d
    /\ narrowed' = (Len(gardens) < Len(csv))
    /\ pc' = "load"
    /\ gardens' = <<>>
    /\ dpts_data' = <<>>
    /\ unique_types' = <<>>
    /\ unique_departements' = <<>>
    /\ add_selectbox' = All
    /\ add_selectbox_2' = AllDept
    /\ map_1' = <<>>
    /\ gardens_per_dpt' = <<>>
    /\ map_2' = <<>>
    /\ table' = <<>>
    /\ UNCHANGED <<csv, geojson>>

Next ==
    \/ Load
    \/ SelectBoxes
    \/ Filter
    \/ Map1
    \/ Aggregate
    \/ Map2
    \/ Table
    \/ UserChange

Spec == Init /\ [][Next]_vars

----------------------------------------------------------------------------
(* Properties *)

\* the frame every run starts from
Loaded == rename(read_csv(csv))

\* the filter step of the current run has been executed
AfterFilter ==
    pc \in {"map_1", "aggregate", "map_2", "table", "done", "crashed"}

\* the option lists of the current run have been built
AfterSelectBoxes == pc \notin {"load", "selectboxes"}

\* the aggregation of the current run has been executed
AfterAggregate == pc \in {"map_2", "table", "done"}

\* sel occurs in txt as a literal run of characters
IsSubstring(sel, txt) ==
    \E p \in 0..(Len(txt) - Len(sel)) : SubSeq(txt, p + 1, p + Len(sel)) = sel

TypeOnly == filter_step(Loaded, add_selectbox, AllDept)
DeptOnly == filter_step(Loaded, All, add_selectbox_2)

BoundariesNamed(d) == {b \in 1..Len(dpts_data) : dpts_data[b].nom = d}
GardensIn(d) == {i \in 1..Len(gardens) : gardens[i].Department = d}
RowsOf(d) ==
    {k \in 1..Len(gardens_per_dpt) : gardens_per_dpt[k].Department = d}
SumOfCounts == Sum(Column(gardens_per_dpt, "Number_of_gardens"))

\* C1: the filtered collection is the intersection of the gardens kept by
\* the type filter alone and the gardens kept by the department filter
\* alone, and applying the two filters in either order gives it.
C1_FilterIsIntersection ==
    AfterFilter =>
        /\ gardens = SelectSeq(Loaded, LAMBDA r :
                         r \in Range(TypeOnly) /\ r \in Range(DeptOnly))
        /\ gardens = filter_step(TypeOnly, All, add_selectbox_2)
        /\ gardens = filter_step(DeptOnly, add_selectbox, AllDept)

\* both filters are active, each removes a garden the other keeps
C1_Witness ==
    /\ AfterFilter
    /\ add_selectbox # All
    /\ add_selectbox_2 # AllDept
    /\ TypeOnly # <<>>
    /\ DeptOnly # <<>>
    /\ gardens # TypeOnly
    /\ gardens # DeptOnly

\* C2: with a type other than "All" the filter keeps exactly the gardens
\* whose types cell contains the selector as a literal substring, and with
\* a department other than "All" exactly those of that department.
C2_LiteralSubstring ==
    AfterFilter =>
        gardens = SelectSeq(Loaded, LAMBDA r :
            /\ add_selectbox # All => IsSubstring(add_selectbox, r.types)
            /\ add_selectbox_2 # AllDept => r.Department = add_selectbox_2)

\* C3: filtering with "All" and "All" returns the loaded collection
\* unchanged.
C3_AllAllIdentity ==
    (AfterFilter /\ add_selectbox = All /\ add_selectbox_2 = AllDept)
        => gardens = Loaded

\* the user came back to "All"/"All" after a selection that removed rows
C3_Witness ==
    /\ pc = "done"
    /\ add_selectbox = All
    /\ add_selectbox_2 = AllDept
    /\ narrowed
    /\ Len(gardens) >= 2

\* C4 as stated: the counts sum to the number of filtered gardens whose
\* department has a boundary of that name.
C4_SumIsMatchedGardens ==
    AfterAggregate =>
        SumOfCounts = Cardinality({i \in 1..Len(gardens) :
                          BoundariesNamed(gardens[i].Department) # {}})

\* C4 amended: the counts sum, over the filtered gardens, to the number of
\* boundaries that bear the garden's department name (one per matched
\* garden when no two boundaries share a name).
C4_SumCountsEachBoundary ==
    AfterAggregate =>
        SumOfCounts =
            Sum([i \in 1..Len(gardens) |->
                    Cardinality(BoundariesNamed(gardens[i].Department))])

\* two gardens of one department that has a boundary, counted together
C4_Witness ==
    /\ pc = "done"
    /\ \E d \in Range(SortedNames) :
          /\ Cardinality(GardensIn(d)) >= 2
          /\ Cardinality(BoundariesNamed(d)) = 1
    /\ SumOfCounts = 2

\* C5: the departments of the aggregated result are exactly the names
\* that have a filtered garden and a boundary; a department without
\* filtered gardens is absent, one without a boundary is dropped.
C5_DepartmentsOfResult ==
    AfterAggregate =>
        Range(Column(gardens_per_dpt, "Department")) =
            {d \in Range(SortedNames) :
                GardensIn(d) # {} /\ BoundariesNamed(d) # {}}

\* a filtered garden without boundary, a boundary without filtered garden
\* and a department that has both
C5_Witness ==
    /\ pc = "done"
    /\ \E d \in Range(SortedNames) : GardensIn(d) # {} /\ BoundariesNamed(d) = {}
    /\ \E d \in Range(SortedNames) : GardensIn(d) = {} /\ BoundariesNamed(d) # {}
    /\ gardens_per_dpt # <<>>

\* C6: when the selections leave no garden of a non-empty dataset, the
\* map centre is a defined value, no exception stops the run and the maps
\* are drawn.
C6_EmptyFilterDrawsMaps ==
    (/\ Loaded # <<>>
     /\ gardens = <<>>
     /\ pc \in {"aggregate", "map_2", "table", "done", "crashed"})
        => /\ pc # "crashed"
           /\ map_1 # <<>>
           /\ NaN \notin Range(map_1[1].location)

\* C7: the type options start with "All", hold no value twice, and every
\* other option is a tag of some garden's types cell.
C7_AllFirstNoDuplicates ==
    AfterSelectBoxes =>
        /\ unique_types[1] = All
        /\ \A i, j \in 1..Len(unique_types) :
              unique_types[i] = unique_types[j] => i = j
        /\ \A i \in 2..Len(unique_types) :
              \E r \in Range(Loaded) : unique_types[i] \in Range(split(r.types))

\* C8 as stated: a department name occurs in at most one row of the
\* aggregated result, whatever the boundary collection.
C8_DepartmentInOneRow ==
    AfterAggregate =>
        \A d \in Range(SortedNames) : Cardinality(RowsOf(d)) <= 1

\* C8 amended: a department name occurs in as many rows as there are
\* boundaries bearing it when it has a filtered garden, in none otherwise;
\* hence in at most one row when no two boundaries share a name.
C8_OneRowPerBoundary ==
    AfterAggregate =>
        /\ \A d \in Range(SortedNames) :
              Cardinality(RowsOf(d)) =
                  IF GardensIn(d) # {}
                  THEN Cardinality(BoundariesNamed(d))
                  ELSE 0
        /\ (\A d \in Range(SortedNames) : Cardinality(BoundariesNamed(d)) <= 1)
              => \A d \in Range(SortedNames) : Cardinality(RowsOf(d)) <= 1

\* two gardens of one department, one boundary of that name, one row
C8_Witness ==
    /\ pc = "done"
    /\ \E d \in Range(SortedNames) :
          /\ Cardinality(GardensIn(d)) >= 2
          /\ Cardinality(BoundariesNamed(d)) = 1
          /\ Cardinality(RowsOf(d)) = 1

\* C9: in every run the filtered collection is the filter applied to the
\* full loaded dataset with the selections the widgets hold now.
C9_OnlyCurrentSelections ==
    AfterFilter => gardens = filter_step(Loaded, sel_type, sel_dept)

\* the previous run had removed rows, the current selection is another
\* restricting one and keeps rows
C9_Witness ==
    /\ pc = "done"
    /\ narrowed
    /\ <<sel_type, sel_dept>> # <<All, AllDept>>
    /\ gardens # <<>>
    /\ Len(gardens) < Len(csv)

\* C10: every option other than "All", chosen alone, selects at least one
\* garden.
C10_OptionsSelectSomething ==
    AfterSelectBoxes =>
        /\ \A i \in 1..Len(unique_types) :
              unique_types[i] # All =>
                  filter_step(Loaded, unique_types[i], AllDept) # <<>>
        /\ \A i \in 1..Len(unique_departements) :
              unique_departements[i] # AllDept =>
                  filter_step(Loaded, All, unique_departements[i]) # <<>>

====
